---- MODULE Spec2Model ----
(***************************************************************************)
(* Model of backend/server.py: the invoicing backend.  All state lives in  *)
(* the document store (collections users, products, price_history,         *)
(* invoices).  Every request is served by a coroutine; between two awaited *)
(* store calls of one coroutine the event loop may run any other           *)
(* coroutine, so each awaited store call is one atomic step of the model   *)
(* and the code between two awaits belongs to the step of the next call.   *)
(*                                                                         *)
(* Money is a float in the code.  The model holds money as an exact        *)
(* integer number of hundredths (100.00 is 10000); the inputs are chosen   *)
(* so that every product and quotient the code computes is exact.          *)
(***************************************************************************)
EXTENDS Integers, Sequences, FiniteSets, TLC

VARIABLES
    users,          \* db.users: documents in insertion order
    products,       \* db.products
    price_history,  \* db.price_history
    invoices,       \* db.invoices
    now,            \* datetime.now(timezone.utc), as a tick count
    pc,             \* per request slot: where its coroutine stands
    local,          \* per request slot: the coroutine's local variables
    resp            \* the response sent last (n flips on every response)

vars == <<users, products, price_history, invoices, now, pc, local, resp>>
store == <<users, products, price_history, invoices>>

----------------------------------------------------------------------------
(* Bounds of the model *)

NumProcs == 2       \* request slots served concurrently
MaxUsers == 3       \* cap on documents in db.users
MaxInvoices == 2    \* cap on documents in db.invoices
MaxProducts == 1    \* cap on documents in db.products
MaxHistory == 2     \* cap on documents in db.price_history
MaxTime == 1        \* cap on the clock
MonthLen == 2       \* clock ticks in a calendar month

Procs == 1..NumProcs

----------------------------------------------------------------------------
(* Values *)

None == [none |-> TRUE]
NoStr == "None"

SECRET_KEY == "your-secret-key-change-in-production"

ADMIN == "admin"
USER == "user"
UserRole == {ADMIN, USER}

DRAFT == "draft"
SENT == "sent"
PAID == "paid"
OVERDUE == "overdue"
InvoiceStatus == {DRAFT, SENT, PAID, OVERDUE}

\* BusinessProfile(): the defaults.  Two of the seventeen string fields stand
\* for all of them: every field is handled alike by the code.
BusinessProfile ==
    [company_name |-> "Your Company Name", bank_name |-> "State Bank of India"]

ProfileFields == {"company_name", "bank_name"}

\* BusinessProfile(**d): missing fields take their defaults
BusinessProfileOf(d) ==
    [f \in ProfileFields |-> IF f \in DOMAIN d THEN d[f] ELSE BusinessProfile[f]]

----------------------------------------------------------------------------
(* Store primitives *)

Range(s) == {s[i] : i \in DOMAIN s}

\* the document has every field of the filter with the filter's value
MatchesFilter(doc, filter) ==
    \A k \in DOMAIN filter : k \in DOMAIN doc /\ doc[k] = filter[k]

\* the indices of the documents of collection c that match one of the filters
Matches(c, filters) ==
    {i \in DOMAIN c : \E filter \in filters : MatchesFilter(c[i], filter)}

Min(S) == CHOOSE x \in S : \A y \in S : x <= y

\* collection.find_one({"$or": filters}): the first matching document, or None
find_one_or(c, filters) ==
    IF Matches(c, filters) = {} THEN None ELSE c[Min(Matches(c, filters))]

\* collection.find_one(filter)
find_one(c, filter) == find_one_or(c, {filter})

\* collection.insert_one(doc)
insert_one(c, doc) == Append(c, doc)

\* collection.count_documents({})
count_documents(c) == Len(c)

\* collection.update_one(filter, {"$set": fields}): the first matching
\* document gets the fields; modified_count is 1 only if that changed it
SetFields(doc, fields) ==
    [f \in DOMAIN doc \cup DOMAIN fields |->
        IF f \in DOMAIN fields THEN fields[f] ELSE doc[f]]

update_one(c, filter, fields) ==
    IF Matches(c, {filter}) = {} THEN [coll |-> c, modified_count |-> 0]
    ELSE LET i == Min(Matches(c, {filter}))
             d == SetFields(c[i], fields)
         IN  [coll |-> [c EXCEPT ![i] = d],
              modified_count |-> IF d = c[i] THEN 0 ELSE 1]

----------------------------------------------------------------------------
(* Datetimes.  A datetime is a tick count.  Its ISO-8601 string starts with
   the calendar month and goes on with the time within the month; the store
   holds datetimes as these strings and compares them as strings. *)

\* datetime.isoformat()
isoformat(t) == <<t \div MonthLen, t % MonthLen>>

\* datetime.fromisoformat(s)
fromisoformat(s) == s[1] * MonthLen + s[2]

\* a >= b on ISO strings, character by character
IsoGte(a, b) == a[1] > b[1] \/ (a[1] = b[1] /\ a[2] >= b[2])

\* the datetime-valued fields of the stored models (due_date is always
\* null in the requests of this model and stays null)
DatetimeFields == {"created_at", "updated_at", "invoice_date", "changed_at"}

\* prepare_for_mongo: datetimes become ISO strings
prepare_for_mongo(data) ==
    [k \in DOMAIN data |->
        IF k \in DatetimeFields THEN isoformat(data[k]) ELSE data[k]]

\* parse_from_mongo: the strings under keys ending in "_at" become datetimes
parse_from_mongo(item) ==
    [k \in DOMAIN item |->
        IF k \in {"created_at", "updated_at", "changed_at"}
        THEN fromisoformat(item[k]) ELSE item[k]]

----------------------------------------------------------------------------
(* Utility functions *)

Salts == {"s1", "s2"}

\* bcrypt.hashpw(password, gensalt()): the salt is kept in the hash
hash_password(password, salt) ==
    [alg |-> "bcrypt", salt |-> salt, digest |-> <<salt, password>>]

\* bcrypt.checkpw(password, hashed): rehash with the stored salt and compare
verify_password(password, hashed) ==
    hash_password(password, hashed.salt).digest = hashed.digest

\* jwt.encode(data, SECRET_KEY)
create_access_token(data) == [key |-> SECRET_KEY, payload |-> data]

\* jwt.decode: the payload, or 401 when the signature does not verify
verify_token(token) ==
    IF token.key = SECRET_KEY
    THEN [ok |-> TRUE, payload |-> token.payload]
    ELSE [ok |-> FALSE, status |-> 401, detail |-> "Invalid token"]

\* Authorization header: absent, or "Bearer <token>"
NoCredentials == [scheme |-> "none"]
Bearer(token) == [scheme |-> "Bearer", credentials |-> token]

\* Depends(security) then get_current_user.  HTTPBearer answers a request
\* without credentials 403 before get_current_user runs.
get_current_user_lax(us, cred) ==
    IF cred.scheme # "Bearer"
    THEN [ok |-> FALSE, status |-> 403, detail |-> "Not authenticated"]
    ELSE LET payload == cred.credentials.payload
             username == IF "sub" \in DOMAIN payload THEN payload.sub ELSE ""
             user == find_one(us, [username |-> username])
         IN  IF username = ""
             THEN [ok |-> FALSE, status |-> 401, detail |-> "Invalid token"]
             ELSE IF user = None
             THEN [ok |-> FALSE, status |-> 401, detail |-> "User not found"]
             ELSE [ok |-> TRUE, user |-> user]

get_current_user(us, cred) ==
    IF cred.scheme # "Bearer"
    THEN [ok |-> FALSE, status |-> 403, detail |-> "Not authenticated"]
    ELSE LET v == verify_token(cred.credentials)
         IN  IF ~v.ok THEN v
             ELSE LET username ==
                          IF "sub" \in DOMAIN v.payload THEN v.payload.sub ELSE ""
                      user == find_one(us, [username |-> username])
                  IN  IF username = ""
                      THEN [ok |-> FALSE, status |-> 401, detail |-> "Invalid token"]
                      ELSE IF user = None
                      THEN [ok |-> FALSE, status |-> 401, detail |-> "User not found"]
                      ELSE [ok |-> TRUE, user |-> user]

\* get_admin_user
get_admin_user_lax(us, cred) == get_current_user(us, cred)

get_admin_user(us, cred) ==
    LET r == get_current_user(us, cred)
    IN  IF r.ok /\ r.user.role # ADMIN
        THEN [ok |-> FALSE, status |-> 403, detail |-> "Admin access required"]
        ELSE r

----------------------------------------------------------------------------
(* Documents and request inputs *)

\* dict.get(key, default)
Get(d, key, default) == IF key \in DOMAIN d THEN d[key] ELSE default

\* User(**doc): the model's fields with their defaults; the stored password
\* is no field of User and is dropped
User(doc) ==
    [id |-> doc.id,
     username |-> doc.username,
     email |-> doc.email,
     full_name |-> doc.full_name,
     role |-> Get(doc, "role", USER),
     is_active |-> Get(doc, "is_active", TRUE),
     business_profile |-> Get(doc, "business_profile", None),
     created_at |-> fromisoformat(doc.created_at)]

Usernames == {"admin", "alice", "bob"}
Passwords == {"admin123", "secret", "wrong"}

\* what the startup hook inserts
AdminDoc(n, t, salt) ==
    [id |-> <<"user", n>>,
     username |-> "admin",
     email |-> "admin@invoiceapp.com",
     full_name |-> "System Administrator",
     role |-> ADMIN,
     is_active |-> TRUE,
     business_profile |-> BusinessProfile,
     created_at |-> isoformat(t),
     password |-> hash_password("admin123", salt)]

\* create_admin_user, the startup hook: insert the admin unless the store
\* already holds a user of role admin
create_admin_user(us, t, salt) ==
    IF find_one(us, [role |-> ADMIN]) # None THEN us
    ELSE insert_one(us, AdminDoc(Len(us) + 1, t, salt))

\* A user document the store may hold from an earlier run.  No handler writes
\* is_active, so an inactive account is always one the store already held.
StoredUser(name, mail, active, profile) ==
    [id |-> <<"user", 1>>,
     username |-> name,
     email |-> mail,
     full_name |-> name,
     role |-> USER,
     is_active |-> active,
     business_profile |-> profile,
     created_at |-> isoformat(0),
     password |-> hash_password("secret", "s1")]

SeedUsers ==
    { <<>>,
      <<StoredUser("bob", "bob@example.com", FALSE, BusinessProfile)>>,
      <<StoredUser("bob", "bob@example.com", TRUE, None)>> }

\* The bearer tokens a request may carry: tokens never expire, so any token
\* ever signed with the key stays usable, whatever became of its user.
Tokens ==
    { [key |-> SECRET_KEY, payload |-> [sub |-> "admin", role |-> ADMIN]],
      [key |-> SECRET_KEY, payload |-> [sub |-> "alice", role |-> USER]],
      [key |-> SECRET_KEY, payload |-> [sub |-> "bob", role |-> USER]],
      [key |-> SECRET_KEY, payload |-> [role |-> USER]],
      [key |-> "another-key", payload |-> [sub |-> "admin", role |-> ADMIN]] }

Credentials == {NoCredentials} \cup {Bearer(t) : t \in Tokens}

\* the handlers behind Depends(get_current_user) / Depends(get_admin_user)
ProtectedOps ==
    { "create_user", "get_current_user_info", "get_business_profile",
      "update_business_profile", "create_product", "get_products",
      "search_products", "update_product", "create_invoice", "get_invoices",
      "get_invoice", "update_invoice_status", "download_invoice_pdf",
      "get_dashboard_stats" }

----------------------------------------------------------------------------
(* Initial state: the store as found, after the startup hook has run *)

InitWith(seeds) ==
    /\ \E seed \in seeds : users = create_admin_user(seed, 0, "s1")
    /\ products = <<>>
    /\ price_history = <<>>
    /\ invoices = <<>>
    /\ now = 0
    /\ pc = [p \in Procs |-> "idle"]
    /\ local = [p \in Procs |-> None]
    /\ resp = [n |-> 0, op |-> "startup", cred |-> NoCredentials, req |-> None,
               status |-> 0, detail |-> "", body |-> None]

Init == InitWith(SeedUsers)

----------------------------------------------------------------------------
(* Request handling *)

\* the coroutine of slot p sends its response and ends
Respond(p, op, cred, req, status, detail, body) ==
    /\ resp' = [n |-> 1 - resp.n, op |-> op, cred |-> cred, req |-> req,
                status |-> status, detail |-> detail, body |-> body]
    /\ pc' = [pc EXCEPT ![p] = "idle"]
    /\ local' = [local EXCEPT ![p] = None]

\* the coroutine of slot p goes on to label l with locals loc
Goto(p, l, loc) ==
    /\ pc' = [pc EXCEPT ![p] = l]
    /\ local' = [local EXCEPT ![p] = loc]
    /\ UNCHANGED resp

\* A request for a protected handler arrives: the dependency resolves the
\* caller (one users.find_one) and the handler is entered, or the request is
\* answered 401/403 and the handler never runs.
Authenticate(p, op, cred) ==
    /\ pc[p] = "idle"
    /\ LET r == IF op = "create_user" THEN get_admin_user(users, cred)
                ELSE get_current_user(users, cred)
       IN  IF r.ok
           THEN Goto(p, op, [cred |-> cred, current_user |-> User(r.user)])
           ELSE Respond(p, op, cred, None, r.status, r.detail, None)
    /\ UNCHANGED <<store, now>>

\* POST /auth/login
login_no_active_check(p, username, password) ==
    /\ pc[p] = "idle"
    /\ LET user == find_one(users, [username |-> username])
           req == [username |-> username, password |-> password]
       IN  IF user = None \/ ~verify_password(password, user.password)
           THEN Respond(p, "login", NoCredentials, req, 401, "Invalid credentials", None)
           ELSE Respond(p, "login", NoCredentials, req, 200, "",
                    [access_token |->
                         create_access_token([sub |-> user.username, role |-> user.role]),
                     token_type |-> "bearer",
                     user |-> User(user)])
    /\ UNCHANGED <<store, now>>

login_tells_unknown(p, username, password) ==
    /\ pc[p] = "idle"
    /\ LET user == find_one(users, [username |-> username])
           req == [username |-> username, password |-> password]
       IN  IF user = None
           THEN Respond(p, "login", NoCredentials, req, 401, "User not found", None)
           ELSE IF ~verify_password(password, user.password)
           THEN Respond(p, "login", NoCredentials, req, 401, "Invalid credentials", None)
           ELSE IF ~Get(user, "is_active", TRUE)
           THEN Respond(p, "login", NoCredentials, req, 401, "Account is inactive", None)
           ELSE Respond(p, "login", NoCredentials, req, 200, "",
                    [access_token |->
                         create_access_token([sub |-> user.username, role |-> user.role]),
                     token_type |-> "bearer",
                     user |-> User(user)])
    /\ UNCHANGED <<store, now>>

login(p, username, password) ==
    /\ pc[p] = "idle"
    /\ LET user == find_one(users, [username |-> username])
           req == [username |-> username, password |-> password]
       IN  IF user = None \/ ~verify_password(password, user.password)
           THEN Respond(p, "login", NoCredentials, req, 401, "Invalid credentials", None)
           ELSE IF ~Get(user, "is_active", TRUE)
           THEN Respond(p, "login", NoCredentials, req, 401, "Account is inactive", None)
           ELSE Respond(p, "login", NoCredentials, req, 200, "",
                    [access_token |->
                         create_access_token([sub |-> user.username, role |-> user.role]),
                     token_type |-> "bearer",
                     user |-> User(user)])
    /\ UNCHANGED <<store, now>>

\* GET /auth/me
get_current_user_info(p) ==
    /\ pc[p] = "get_current_user_info"
    /\ Respond(p, "get_current_user_info", local[p].cred, None, 200, "",
               local[p].current_user)
    /\ UNCHANGED <<store, now>>

\* the UserCreate bodies sent: a fresh user, and two that clash with it on
\* the username or on the email
UserCreate ==
    { [username |-> "alice", email |-> "alice@example.com", password |-> "secret",
       full_name |-> "Alice", role |-> USER],
      [username |-> "alice", email |-> "bob@example.com", password |-> "secret",
       full_name |-> "Alice", role |-> ADMIN],
      [username |-> "bob", email |-> "alice@example.com", password |-> "secret",
       full_name |-> "Bob", role |-> USER] }

\* POST /auth/create-user, up to the first await of the body: look for a
\* user with the username or the email
create_user(p, user_data) ==
    /\ pc[p] = "create_user"
    /\ LET existing_user ==
               find_one_or(users, {[username |-> user_data.username],
                                   [email |-> user_data.email]})
       IN  IF existing_user # None
           THEN Respond(p, "create_user", local[p].cred, user_data, 400,
                        "Username or email already exists", None)
           ELSE Goto(p, "create_user_insert",
                     local[p] @@ [user_data |-> user_data])
    /\ UNCHANGED <<store, now>>

\* create_user, from hashing the password to users.insert_one
create_user_insert(p, salt) ==
    /\ pc[p] = "create_user_insert"
    /\ Len(users) < MaxUsers
    /\ LET user_data == local[p].user_data
           hashed_password == hash_password(user_data.password, salt)
           user_obj ==
               [id |-> <<"user", Len(users) + 1>>,
                username |-> user_data.username,
                email |-> user_data.email,
                full_name |-> user_data.full_name,
                role |-> user_data.role,
                is_active |-> TRUE,
                business_profile |-> BusinessProfile,
                created_at |-> now]
       IN  /\ users' = insert_one(users, prepare_for_mongo(user_obj)
                                          @@ [password |-> hashed_password])
           /\ Respond(p, "create_user", local[p].cred, user_data, 200,
                      "User created successfully", user_obj)
    /\ UNCHANGED <<products, price_history, invoices, now>>

----------------------------------------------------------------------------
(* Profile routes *)

\* BusinessProfileUpdate bodies; NoStr is a field left null
BusinessProfileUpdate ==
    { [company_name |-> "Acme Ltd", bank_name |-> NoStr],
      [company_name |-> NoStr, bank_name |-> "HDFC Bank"] }

\* {k: v for k, v in profile_data.dict().items() if v is not None}
NonNull(data) ==
    [k \in {f \in DOMAIN data : data[f] # NoStr} |-> data[k]]

\* GET /profile/business
get_business_profile(p) ==
    /\ pc[p] = "get_business_profile"
    /\ LET user == find_one(users, [username |-> local[p].current_user.username])
           stored == IF user = None THEN None ELSE Get(user, "business_profile", None)
       IN  Respond(p, "get_business_profile", local[p].cred, None, 200, "",
                   IF stored = None THEN BusinessProfile ELSE BusinessProfileOf(stored))
    /\ UNCHANGED <<store, now>>

\* PUT /profile/business, up to users.find_one
update_business_profile(p, profile_data) ==
    /\ pc[p] = "update_business_profile"
    /\ LET user == find_one(users, [username |-> local[p].current_user.username])
       IN  Goto(p, "update_business_profile_write",
                local[p] @@ [profile_data |-> profile_data, user |-> user])
    /\ UNCHANGED <<store, now>>

\* as update_business_profile_write, but the invoices of the user follow the
\* profile (the snapshot kept as a live reference)
update_business_profile_write_through(p) ==
    /\ pc[p] = "update_business_profile_write"
    /\ LET user == local[p].user
           current_profile == Get(user, "business_profile", BusinessProfile)
           update_data == NonNull(local[p].profile_data)
           new_profile == SetFields(current_profile, update_data)
           name == local[p].current_user.username
       IN  IF current_profile = None
           THEN /\ Respond(p, "update_business_profile", local[p].cred,
                           local[p].profile_data, 500, "Internal Server Error", None)
                /\ UNCHANGED <<users, invoices>>
           ELSE /\ users' = update_one(users, [username |-> name],
                                       [business_profile |-> new_profile]).coll
                /\ invoices' = [i \in DOMAIN invoices |->
                                   IF invoices[i].created_by = name
                                   THEN [invoices[i] EXCEPT !.business_profile = new_profile]
                                   ELSE invoices[i]]
                /\ Respond(p, "update_business_profile", local[p].cred,
                           local[p].profile_data, 200, "", BusinessProfileOf(new_profile))
    /\ UNCHANGED <<products, price_history, now>>

\* PUT /profile/business, from user.get to users.update_one.  A stored
\* business_profile of null has no update(): the handler dies with 500.
update_business_profile_write(p) ==
    /\ pc[p] = "update_business_profile_write"
    /\ LET user == local[p].user
           current_profile == Get(user, "business_profile", BusinessProfile)
           update_data == NonNull(local[p].profile_data)
           new_profile == SetFields(current_profile, update_data)
           name == local[p].current_user.username
       IN  IF current_profile = None
           THEN /\ Respond(p, "update_business_profile", local[p].cred,
                           local[p].profile_data, 500, "Internal Server Error", None)
                /\ UNCHANGED users
           ELSE /\ users' = update_one(users, [username |-> name],
                                       [business_profile |-> new_profile]).coll
                /\ Respond(p, "update_business_profile", local[p].cred,
                           local[p].profile_data, 200, "", BusinessProfileOf(new_profile))
    /\ UNCHANGED <<products, price_history, invoices, now>>

----------------------------------------------------------------------------
(* Invoice routes *)

DefaultTaxRate == 18

\* InvoiceItem values.  amount is what the caller sends: the second and the
\* third item do not have amount = quantity * rate.
Widget ==
    [product_id |-> "p1", product_name |-> "Widget", description |-> NoStr,
     quantity |-> 2, rate |-> 5000, amount |-> 10000]
Gadget ==
    [product_id |-> "p2", product_name |-> "Gadget", description |-> "blue",
     quantity |-> 1, rate |-> 25000, amount |-> 20000]
Rebate ==
    [product_id |-> "p1", product_name |-> "Widget", description |-> "rebate",
     quantity |-> 1, rate |-> 0, amount |-> -10000]

Carol == [name |-> "Carol", email |-> NoStr, phone |-> NoStr, address |-> NoStr,
          city |-> NoStr, state |-> NoStr, pincode |-> NoStr, gst_number |-> NoStr]

\* InvoiceCreate(**body): tax_rate defaults to 18.0, the optional fields to None
InvoiceCreate(body) ==
    [customer |-> body.customer,
     items |-> body.items,
     tax_rate |-> Get(body, "tax_rate", DefaultTaxRate),
     bank_details |-> Get(body, "bank_details", None),
     notes |-> Get(body, "notes", NoStr),
     due_date |-> Get(body, "due_date", None)]

\* request bodies of POST /invoices
InvoiceBodies(itemLists, taxRates) ==
    {[customer |-> Carol, items |-> its] : its \in itemLists}
    \cup {[customer |-> Carol, items |-> its, tax_rate |-> r, notes |-> "net 30"] :
              its \in itemLists, r \in taxRates}

RECURSIVE SumAmounts(_)
\* sum(item.amount for item in items)
SumAmounts(items) ==
    IF items = <<>> THEN 0 ELSE Head(items).amount + SumAmounts(Tail(items))

RECURSIVE SumQuantityTimesRate(_)
SumQuantityTimesRate(items) ==
    IF items = <<>> THEN 0
    ELSE Head(items).quantity * Head(items).rate + SumQuantityTimesRate(Tail(items))

\* "Calculate totals"
calculate_totals_from_rate(items, tax_rate) ==
    LET subtotal == SumQuantityTimesRate(items)
        tax_amount == (subtotal * tax_rate) \div 100
    IN  [subtotal |-> subtotal, tax_amount |-> tax_amount,
         total_amount |-> subtotal + tax_amount]

calculate_totals(items, tax_rate) ==
    LET subtotal == SumAmounts(items)
        tax_amount == (subtotal * tax_rate) \div 100
    IN  [subtotal |-> subtotal, tax_amount |-> tax_amount,
         total_amount |-> subtotal + tax_amount]

\* one decimal digit
Digit(d) ==
    CASE d = 0 -> "0" [] d = 1 -> "1" [] d = 2 -> "2" [] d = 3 -> "3"
      [] d = 4 -> "4" [] d = 5 -> "5" [] d = 6 -> "6" [] d = 7 -> "7"
      [] d = 8 -> "8" [] d = 9 -> "9"

RECURSIVE Decimal(_)
\* str(n) for n >= 0
Decimal(n) == IF n < 10 THEN Digit(n) ELSE Decimal(n \div 10) \o Digit(n % 10)

RECURSIVE ZeroPad(_, _)
\* the string padded on the left with zeros to the width
ZeroPad(s, width) == IF Len(s) >= width THEN s ELSE ZeroPad("0" \o s, width)

\* f"INV-{count:04d}"
invoice_number_of_count(count) == "INV-" \o ZeroPad(Decimal(count), 4)

\* f"INV-{count + 1:04d}"
invoice_number_of(count) == "INV-" \o ZeroPad(Decimal(count + 1), 4)

\* POST /invoices, up to invoices.count_documents
create_invoice(p, body) ==
    /\ pc[p] = "create_invoice"
    /\ Goto(p, "create_invoice_profile",
            local[p] @@ [invoice_data |-> InvoiceCreate(body),
                         count |-> count_documents(invoices)])
    /\ UNCHANGED <<store, now>>

\* POST /invoices, from the invoice number to users.find_one
create_invoice_profile(p) ==
    /\ pc[p] = "create_invoice_profile"
    /\ LET user == find_one(users, [username |-> local[p].current_user.username])
       IN  Goto(p, "create_invoice_insert",
                local[p] @@ [invoice_number |-> invoice_number_of(local[p].count),
                             user |-> user])
    /\ UNCHANGED <<store, now>>

\* the Invoice built at server.py:386-399
InvoiceObj(id, invoice_number, invoice_data, totals, created_by, business_profile, t) ==
    [id |-> id,
     invoice_number |-> invoice_number,
     customer |-> invoice_data.customer,
     items |-> invoice_data.items,
     subtotal |-> totals.subtotal,
     tax_rate |-> invoice_data.tax_rate,
     tax_amount |-> totals.tax_amount,
     total_amount |-> totals.total_amount,
     bank_details |-> invoice_data.bank_details,
     notes |-> invoice_data.notes,
     status |-> DRAFT,
     created_by |-> created_by,
     business_profile |-> business_profile,
     invoice_date |-> t,
     due_date |-> invoice_data.due_date,
     created_at |-> t,
     updated_at |-> t]

\* POST /invoices, from the profile snapshot to invoices.insert_one
create_invoice_insert(p) ==
    /\ pc[p] = "create_invoice_insert"
    /\ Len(invoices) < MaxInvoices
    /\ LET stored == Get(local[p].user, "business_profile", None)
           business_profile ==
               IF stored # None THEN BusinessProfileOf(stored) ELSE BusinessProfile
           invoice_data == local[p].invoice_data
           totals == calculate_totals(invoice_data.items, invoice_data.tax_rate)
           invoice_obj ==
               InvoiceObj(<<"invoice", Len(invoices) + 1>>, local[p].invoice_number,
                          invoice_data, totals, local[p].current_user.username,
                          business_profile, now)
       IN  /\ invoices' = insert_one(invoices, prepare_for_mongo(invoice_obj))
           /\ Respond(p, "create_invoice", local[p].cred, invoice_data, 200, "",
                      invoice_obj)
    /\ UNCHANGED <<users, products, price_history, now>>

\* Invoice(**doc): pydantic parses the ISO string left under invoice_date
Invoice(doc) ==
    [k \in DOMAIN doc |->
        IF k = "invoice_date" THEN fromisoformat(doc[k]) ELSE doc[k]]

\* invoice ids a request may name: the stored ones and one that is not
InvoiceIds == {<<"invoice", i>> : i \in 1..(MaxInvoices + 1)}

\* GET /invoices/{invoice_id}
get_invoice(p, invoice_id) ==
    /\ pc[p] = "get_invoice"
    /\ LET invoice == find_one(invoices, [id |-> invoice_id])
       IN  IF invoice = None
           THEN Respond(p, "get_invoice", local[p].cred, invoice_id, 404,
                        "Invoice not found", None)
           ELSE Respond(p, "get_invoice", local[p].cred, invoice_id, 200, "",
                        Invoice(parse_from_mongo(invoice)))
    /\ UNCHANGED <<store, now>>

\* PUT /invoices/{invoice_id}/status
update_invoice_status_any_field(p, invoice_id, status) ==
    /\ pc[p] = "update_invoice_status"
    /\ LET result == update_one(invoices, [id |-> invoice_id],
                                [status |-> status, updated_at |-> isoformat(now),
                                 notes |-> status])
           req == [invoice_id |-> invoice_id, status |-> status]
       IN  /\ invoices' = result.coll
           /\ IF result.modified_count = 0
              THEN Respond(p, "update_invoice_status", local[p].cred, req, 404,
                           "Invoice not found", None)
              ELSE Respond(p, "update_invoice_status", local[p].cred, req, 200,
                           "Invoice status updated successfully", None)
    /\ UNCHANGED <<users, products, price_history, now>>

update_invoice_status(p, invoice_id, status) ==
    /\ pc[p] = "update_invoice_status"
    /\ LET result == update_one(invoices, [id |-> invoice_id],
                                [status |-> status, updated_at |-> isoformat(now)])
           req == [invoice_id |-> invoice_id, status |-> status]
       IN  /\ invoices' = result.coll
           /\ IF result.modified_count = 0
              THEN Respond(p, "update_invoice_status", local[p].cred, req, 404,
                           "Invoice not found", None)
              ELSE Respond(p, "update_invoice_status", local[p].cred, req, 200,
                           "Invoice status updated successfully", None)
    /\ UNCHANGED <<users, products, price_history, now>>

\* the clock advances
Tick ==
    /\ now < MaxTime
    /\ now' = now + 1
    /\ UNCHANGED <<store, pc, local, resp>>

----------------------------------------------------------------------------
(* Product routes *)

DefaultUnit == "pcs"
ListCap == 1000     \* to_list(1000)
SearchCap == 10     \* to_list(10)

\* the first n documents of a cursor
to_list(c, n) == IF Len(c) <= n THEN c ELSE SubSeq(c, 1, n)

\* request bodies of POST /products
ProductCreate ==
    { [name |-> "Widget", description |-> NoStr, current_price |-> 10000,
       unit |-> DefaultUnit] }

\* request bodies of PUT /products/{id}, as the fields that are not null
ProductUpdate ==
    { [current_price |-> 15000],
      [current_price |-> 10000],
      [description |-> "blue"] }

ProductIds == {<<"product", i>> : i \in 1..(MaxProducts + 1)}

\* Product(**doc)
Product(doc) == doc

\* POST /products
create_product(p, product_data) ==
    /\ pc[p] = "create_product"
    /\ Len(products) < MaxProducts
    /\ LET product_obj ==
               [id |-> <<"product", Len(products) + 1>>,
                name |-> product_data.name,
                description |-> product_data.description,
                current_price |-> product_data.current_price,
                unit |-> product_data.unit,
                created_at |-> now,
                updated_at |-> now]
       IN  /\ products' = insert_one(products, prepare_for_mongo(product_obj))
           /\ Respond(p, "create_product", local[p].cred, product_data, 200, "",
                      product_obj)
    /\ UNCHANGED <<users, price_history, invoices, now>>

\* GET /products
get_products(p) ==
    /\ pc[p] = "get_products"
    /\ Respond(p, "get_products", local[p].cred, None, 200, "",
               LET found == to_list(products, ListCap)
               IN  [i \in DOMAIN found |-> Product(parse_from_mongo(found[i]))])
    /\ UNCHANGED <<store, now>>

\* the text in lower case, letter by letter
Lower(s) ==
    CASE s = "Widget" -> <<"w", "i", "d", "g", "e", "t">>
      [] s = "wid" -> <<"w", "i", "d">>
      [] s = "GET" -> <<"g", "e", "t">>
      [] s = "x" -> <<"x">>

SearchQueries == {"wid", "GET", "x"}

\* {"$regex": q, "$options": "i"} for a q of plain letters
RegexMatch(q, name) ==
    \E i \in 1..(Len(Lower(name)) - Len(Lower(q)) + 1) :
        SubSeq(Lower(name), i, i + Len(Lower(q)) - 1) = Lower(q)

\* GET /products/search
search_products(p, q) ==
    /\ pc[p] = "search_products"
    /\ Respond(p, "search_products", local[p].cred, q, 200, "",
               LET found == to_list(SelectSeq(products, LAMBDA d : RegexMatch(q, d.name)),
                                    SearchCap)
               IN  [i \in DOMAIN found |->
                       [id |-> found[i].id, name |-> found[i].name,
                        current_price |-> found[i].current_price,
                        description |-> found[i].description]])
    /\ UNCHANGED <<store, now>>

\* PUT /products/{product_id}, up to products.find_one and the price test
update_product_any_price(p, product_id, product_data) ==
    /\ pc[p] = "update_product"
    /\ LET existing_product == find_one(products, [id |-> product_id])
           update_data == product_data
           loc == local[p] @@ [product_id |-> product_id, update_data |-> update_data,
                               existing_product |-> existing_product]
       IN  IF existing_product = None
           THEN Respond(p, "update_product", local[p].cred,
                        [product_id |-> product_id, product_data |-> product_data],
                        404, "Product not found", None)
           ELSE IF "current_price" \in DOMAIN update_data
           THEN Goto(p, "update_product_history", loc)
           ELSE Goto(p, "update_product_write", loc)
    /\ UNCHANGED <<store, now>>

update_product_upsert(p, product_id, product_data) ==
    /\ pc[p] = "update_product"
    /\ LET existing_product == find_one(products, [id |-> product_id])
           update_data == product_data
           loc == local[p] @@ [product_id |-> product_id, update_data |-> update_data,
                               existing_product |-> existing_product]
       IN  IF existing_product = None
           THEN /\ products' = insert_one(products, [id |-> product_id] @@ update_data)
                /\ Respond(p, "update_product", local[p].cred,
                           [product_id |-> product_id, product_data |-> product_data],
                           404, "Product not found", None)
                /\ UNCHANGED <<users, price_history, invoices, now>>
           ELSE /\ IF "current_price" \in DOMAIN update_data
                      /\ update_data.current_price # existing_product.current_price
                   THEN Goto(p, "update_product_history", loc)
                   ELSE Goto(p, "update_product_write", loc)
                /\ UNCHANGED <<store, now>>

update_product(p, product_id, product_data) ==
    /\ pc[p] = "update_product"
    /\ LET existing_product == find_one(products, [id |-> product_id])
           update_data == product_data
           loc == local[p] @@ [product_id |-> product_id, update_data |-> update_data,
                               existing_product |-> existing_product]
       IN  IF existing_product = None
           THEN Respond(p, "update_product", local[p].cred,
                        [product_id |-> product_id, product_data |-> product_data],
                        404, "Product not found", None)
           ELSE IF "current_price" \in DOMAIN update_data
                   /\ update_data.current_price # existing_product.current_price
           THEN Goto(p, "update_product_history", loc)
           ELSE Goto(p, "update_product_write", loc)
    /\ UNCHANGED <<store, now>>

\* PUT /products/{product_id}: price_history.insert_one
update_product_history(p) ==
    /\ pc[p] = "update_product_history"
    /\ Len(price_history) < MaxHistory
    /\ LET price_history_obj ==
               [id |-> <<"price_history", Len(price_history) + 1>>,
                product_id |-> local[p].product_id,
                old_price |-> local[p].existing_product.current_price,
                new_price |-> local[p].update_data.current_price,
                changed_by |-> local[p].current_user.username,
                changed_at |-> now]
       IN  price_history' = insert_one(price_history, prepare_for_mongo(price_history_obj))
    /\ Goto(p, "update_product_write", local[p])
    /\ UNCHANGED <<users, products, invoices, now>>

\* PUT /products/{product_id}: products.update_one
update_product_write(p) ==
    /\ pc[p] = "update_product_write"
    /\ LET id == local[p].product_id
       IN  products' = update_one(products, [id |-> id],
                                  local[p].update_data
                                      @@ [updated_at |-> isoformat(now)]).coll
    /\ Goto(p, "update_product_reread", local[p])
    /\ UNCHANGED <<users, price_history, invoices, now>>

\* PUT /products/{product_id}: the second products.find_one and the answer
update_product_reread(p) ==
    /\ pc[p] = "update_product_reread"
    /\ LET id == local[p].product_id
           updated_product == find_one(products, [id |-> id])
       IN  Respond(p, "update_product", local[p].cred,
                   [product_id |-> id, product_data |-> local[p].update_data],
                   200, "", Product(parse_from_mongo(updated_product)))
    /\ UNCHANGED <<store, now>>

\* PUT /products/{product_id}: an awaited store call of the handler raises
\* (the store is unreachable); the exception leaves the handler and the
\* request is answered 500 with what was written so far left in the store
update_product_fails(p) ==
    /\ pc[p] \in {"update_product_history", "update_product_write",
                  "update_product_reread"}
    /\ Respond(p, "update_product", local[p].cred,
               [product_id |-> local[p].product_id,
                product_data |-> local[p].update_data],
               500, "Internal Server Error", None)
    /\ UNCHANGED <<store, now>>
----------------------------------------------------------------------------
(* Listing, rendering and reporting *)

\* the orders in which find().sort("created_at", -1) may return the
\* collection: newest first, documents of equal created_at in any order
SortedNewestFirst(c) ==
    { [i \in DOMAIN c |-> c[f[i]]] : f \in
        { g \in Permutations(DOMAIN c) :
            \A i, j \in DOMAIN c :
                i < j => IsoGte(c[g[i]].created_at, c[g[j]].created_at) } }

\* GET /invoices
get_invoices(p) ==
    /\ pc[p] = "get_invoices"
    /\ \E sorted \in SortedNewestFirst(invoices) :
           Respond(p, "get_invoices", local[p].cred, None, 200, "",
                   [i \in DOMAIN to_list(sorted, ListCap) |->
                       Invoice(parse_from_mongo(sorted[i]))])
    /\ UNCHANGED <<store, now>>

\* str.upper() of a status
Upper(s) ==
    CASE s = DRAFT -> "DRAFT" [] s = SENT -> "SENT"
      [] s = PAID -> "PAID" [] s = OVERDUE -> "OVERDUE"

\* f"{x:.2f}" of an amount of hundredths
Fixed2(x) ==
    IF x < 0 THEN "-" \o Decimal((0 - x) \div 100) \o "." \o ZeroPad(Decimal((0 - x) % 100), 2)
    ELSE Decimal(x \div 100) \o "." \o ZeroPad(Decimal(x % 100), 2)

\* f"{r:.1f}" of a number of tenths
Fixed1(x) == Decimal(x \div 10) \o "." \o Decimal(x % 10)

\* texts that reportlab's Paragraph cannot parse
BadMarkup == {"<b>net 30"}

\* f"{x / 2:.2f}" of an amount of hundredths.  Half of an odd amount ends in
\* half a hundredth, which no float holds exactly: the float next to it lies
\* below or above, and the two digits shown are rounded down or up with it.
HalfFixed2(x, up) ==
    IF x % 2 = 0 THEN Fixed2(x \div 2)
    ELSE Fixed2(x \div 2 + (IF up THEN 1 ELSE 0))

\* generate_invoice_pdf: the story, section by section, or the exception
\* the layout raises.  up is the way the halves of the tax are rounded.
generate_invoice_pdf(invoice, up) ==
    LET cgst == HalfFixed2(invoice.tax_amount, up)
        sgst == HalfFixed2(invoice.tax_amount, up)
        half_rate == (invoice.tax_rate * 10) \div 2
    IN  IF invoice.notes \in BadMarkup \/ invoice.customer.name \in BadMarkup
        THEN [raised |-> TRUE]
        ELSE [raised |-> FALSE,
              company_name |-> IF invoice.business_profile # None
                               THEN invoice.business_profile.company_name
                               ELSE "Your Company Name",
              invoice_details |-> [invoice_no |-> invoice.invoice_number,
                                   date |-> invoice.invoice_date,
                                   status |-> Upper(invoice.status)],
              bill_to |-> invoice.customer.name,
              items_data |-> [i \in DOMAIN invoice.items |->
                                 [description |-> invoice.items[i].product_name,
                                  quantity |-> invoice.items[i].quantity,
                                  rate |-> Fixed2(invoice.items[i].rate),
                                  amount |-> Fixed2(invoice.items[i].amount)]],
              totals_data |-> [subtotal |-> Fixed2(invoice.subtotal),
                               cgst_label |-> Fixed1(half_rate),
                               cgst |-> cgst,
                               sgst_label |-> Fixed1(half_rate),
                               sgst |-> sgst,
                               total_amount |-> Fixed2(invoice.total_amount)],
              notes |-> invoice.notes,
              bank_details |-> IF invoice.business_profile # None
                               THEN invoice.business_profile.bank_name
                               ELSE NoStr]

\* GET /invoices/{invoice_id}/pdf.  The 404 is raised inside the try block
\* and HTTPException is an Exception: the handler's except clause turns it
\* into the 500 it gives for a layout failure.
download_invoice_pdf(p, invoice_id) ==
    /\ pc[p] = "download_invoice_pdf"
    /\ \E up \in BOOLEAN :
           LET invoice_data == find_one(invoices, [id |-> invoice_id])
               pdf == generate_invoice_pdf(Invoice(parse_from_mongo(invoice_data)), up)
           IN  IF invoice_data = None
               THEN Respond(p, "download_invoice_pdf", local[p].cred, invoice_id, 500,
                            "Failed to generate PDF", None)
               ELSE IF pdf.raised
               THEN Respond(p, "download_invoice_pdf", local[p].cred, invoice_id, 500,
                            "Failed to generate PDF", None)
               ELSE Respond(p, "download_invoice_pdf", local[p].cred, invoice_id, 200,
                            "", pdf)
    /\ UNCHANGED <<store, now>>

RECURSIVE SumTotalAmount(_)
\* {"$group": {"_id": None, "total": {"$sum": "$total_amount"}}}
SumTotalAmount(c) ==
    IF c = <<>> THEN 0 ELSE Head(c).total_amount + SumTotalAmount(Tail(c))

\* datetime.replace(hour=0, minute=0, second=0, microsecond=0)
month_start_today(t) == t

\* datetime.replace(day=1, hour=0, minute=0, second=0, microsecond=0)
month_start(t) == (t \div MonthLen) * MonthLen

RECURSIVE Unwind(_)
\* {"$unwind": "$items"}
Unwind(c) == IF c = <<>> THEN <<>> ELSE Head(c).items \o Unwind(Tail(c))

RECURSIVE SumQuantity(_)
SumQuantity(items) ==
    IF items = <<>> THEN 0 ELSE Head(items).quantity + SumQuantity(Tail(items))

\* the $group stage of the top-products pipeline
ProductGroups(c) ==
    { [_id |-> name,
       total_quantity |->
           SumQuantity(SelectSeq(Unwind(c), LAMBDA it : it.product_name = name)),
       total_amount |->
           SumAmounts(SelectSeq(Unwind(c), LAMBDA it : it.product_name = name))] :
      name \in {it.product_name : it \in Range(Unwind(c))} }

TopLimit == 5

\* the $sort and $limit stages: the groups by falling total_amount, groups of
\* equal amount in any order, cut after five
TopProducts(c) ==
    LET G == ProductGroups(c)
        n == Cardinality(G)
    IN  { to_list(s, TopLimit) : s \in
            { s \in [1..n -> G] :
                /\ \A i, j \in 1..n : i # j => s[i] # s[j]
                /\ \A i, j \in 1..n : i < j => s[i].total_amount >= s[j].total_amount } }

\* GET /dashboard/stats: invoices.count_documents
get_dashboard_stats(p) ==
    /\ pc[p] = "get_dashboard_stats"
    /\ Goto(p, "get_dashboard_stats_revenue",
            local[p] @@ [total_invoices |-> count_documents(invoices)])
    /\ UNCHANGED <<store, now>>

\* GET /dashboard/stats: the revenue aggregate
get_dashboard_stats_revenue(p) ==
    /\ pc[p] = "get_dashboard_stats_revenue"
    /\ Goto(p, "get_dashboard_stats_monthly",
            local[p] @@ [total_revenue |-> SumTotalAmount(invoices)])
    /\ UNCHANGED <<store, now>>

\* GET /dashboard/stats: the aggregate over the invoices of this month
get_dashboard_stats_monthly(p) ==
    /\ pc[p] = "get_dashboard_stats_monthly"
    /\ LET current_month_start == month_start(now)
           matched == SelectSeq(invoices,
                          LAMBDA d : IsoGte(d.created_at, isoformat(current_month_start)))
       IN  Goto(p, "get_dashboard_stats_top",
                local[p] @@ [monthly_revenue |-> SumTotalAmount(matched)])
    /\ UNCHANGED <<store, now>>

\* GET /dashboard/stats: the top-products aggregate and the answer
get_dashboard_stats_top(p) ==
    /\ pc[p] = "get_dashboard_stats_top"
    /\ \E top_products_result \in TopProducts(invoices) :
           Respond(p, "get_dashboard_stats", local[p].cred, None, 200, "",
                   [total_invoices |-> local[p].total_invoices,
                    total_revenue |-> local[p].total_revenue,
                    monthly_revenue |-> local[p].monthly_revenue,
                    top_products |->
                        [i \in DOMAIN top_products_result |->
                            [name |-> top_products_result[i]._id,
                             quantity |-> top_products_result[i].total_quantity,
                             amount |-> top_products_result[i].total_amount]]])
    /\ UNCHANGED <<store, now>>

----------------------------------------------------------------------------
(* The authentication gate: login, the dependency, /auth/me and user
   creation, two requests at a time *)

AuthOps == {"create_user", "get_current_user_info"}

NextAuth ==
    \/ \E p \in Procs, op \in AuthOps, cred \in Credentials : Authenticate(p, op, cred)
    \/ \E p \in Procs, u \in Usernames, pw \in Passwords : login(p, u, pw)
    \/ \E p \in Procs : get_current_user_info(p)
    \/ \E p \in Procs, d \in UserCreate : create_user(p, d)
    \/ \E p \in Procs, salt \in Salts : create_user_insert(p, salt)

SpecAuth == Init /\ [][NextAuth]_vars

----------------------------------------------------------------------------
(* Invoice creation against profile updates, two requests at a time *)

AdminBearer == Bearer([key |-> SECRET_KEY, payload |-> [sub |-> "admin", role |-> ADMIN]])
BobBearer == Bearer([key |-> SECRET_KEY, payload |-> [sub |-> "bob", role |-> USER]])

InvoiceOps == {"create_invoice", "update_business_profile"}

NextInvoice ==
    \/ \E p \in Procs, op \in InvoiceOps, cred \in {AdminBearer, BobBearer} :
           Authenticate(p, op, cred)
    \/ \E p \in Procs, body \in InvoiceBodies({<<Widget>>}, {}) : create_invoice(p, body)
    \/ \E p \in Procs : create_invoice_profile(p)
    \/ \E p \in Procs : create_invoice_insert(p)
    \/ \E p \in Procs, d \in {x \in BusinessProfileUpdate : x.bank_name = NoStr} :
           update_business_profile(p, d)
    \/ \E p \in Procs : update_business_profile_write(p)

SpecInvoice == Init /\ [][NextInvoice]_vars

----------------------------------------------------------------------------
(* The totals of created invoices, over many item lists and tax rates *)

ItemLists == {<<>>, <<Widget>>, <<Gadget>>, <<Widget, Gadget>>, <<Gadget, Rebate>>}
TaxRates == {0, 5, 18}

NextTotals ==
    \/ \E op \in {"create_invoice", "get_invoice"} : Authenticate(1, op, AdminBearer)
    \/ \E body \in InvoiceBodies(ItemLists, TaxRates) : create_invoice(1, body)
    \/ create_invoice_profile(1)
    \/ create_invoice_insert(1)
    \/ \E id \in InvoiceIds : get_invoice(1, id)

SpecTotals == InitWith({<<>>}) /\ [][NextTotals]_vars

----------------------------------------------------------------------------
(* The life of stored invoices: every handler that writes the store or
   reads the invoices, one request at a time, with the clock *)

FrameOps ==
    { "create_invoice", "update_invoice_status", "update_business_profile",
      "create_product", "update_product", "download_invoice_pdf",
      "get_dashboard_stats" }

NextFrame ==
    \/ \E op \in FrameOps : Authenticate(1, op, AdminBearer)
    \/ \E body \in InvoiceBodies({<<Widget, Gadget>>}, {}) : create_invoice(1, body)
    \/ create_invoice_profile(1)
    \/ create_invoice_insert(1)
    \/ \E id \in InvoiceIds, s \in {SENT, PAID} : update_invoice_status(1, id, s)
    \/ \E d \in {x \in BusinessProfileUpdate : x.bank_name = NoStr} :
           update_business_profile(1, d)
    \/ update_business_profile_write(1)
    \/ \E d \in ProductCreate : create_product(1, d)
    \/ \E id \in ProductIds : update_product(1, id, [current_price |-> 15000])
    \/ update_product_history(1)
    \/ update_product_write(1)
    \/ update_product_reread(1)
    \/ \E id \in InvoiceIds : download_invoice_pdf(1, id)
    \/ get_dashboard_stats(1)
    \/ get_dashboard_stats_revenue(1)
    \/ get_dashboard_stats_monthly(1)
    \/ get_dashboard_stats_top(1)
    \/ Tick

SpecFrame == InitWith({<<>>}) /\ [][NextFrame]_vars

----------------------------------------------------------------------------
(* The whole service, one request at a time, on a small store *)

\* no token, admin's token and a token signed with another key
ServiceCredentials ==
    { NoCredentials, AdminBearer,
      Bearer([key |-> "another-key", payload |-> [sub |-> "admin", role |-> ADMIN]]) }

Next ==
    \/ \E op \in ProtectedOps, cred \in ServiceCredentials : Authenticate(1, op, cred)
    \/ \E pw \in {"admin123", "wrong"} : login(1, "admin", pw)
    \/ get_current_user_info(1)
    \/ \E d \in {x \in UserCreate : x.role = USER /\ x.username = "alice"} : create_user(1, d)
    \/ create_user_insert(1, "s2")
    \/ get_business_profile(1)
    \/ \E d \in {x \in BusinessProfileUpdate : x.bank_name = NoStr} :
           update_business_profile(1, d)
    \/ update_business_profile_write(1)
    \/ \E d \in ProductCreate : create_product(1, d)
    \/ get_products(1)
    \/ search_products(1, "wid")
    \/ \E id \in ProductIds : update_product(1, id, [current_price |-> 15000])
    \/ update_product_history(1)
    \/ update_product_write(1)
    \/ update_product_reread(1)
    \/ \E body \in InvoiceBodies({<<Widget, Gadget>>}, {}) : create_invoice(1, body)
    \/ create_invoice_profile(1)
    \/ create_invoice_insert(1)
    \/ get_invoices(1)
    \/ \E id \in InvoiceIds : get_invoice(1, id)
    \/ \E id \in InvoiceIds : update_invoice_status(1, id, SENT)
    \/ \E id \in InvoiceIds : download_invoice_pdf(1, id)
    \/ get_dashboard_stats(1)
    \/ get_dashboard_stats_revenue(1)
    \/ get_dashboard_stats_monthly(1)
    \/ get_dashboard_stats_top(1)

Spec == InitWith({<<>>}) /\ [][Next]_vars

----------------------------------------------------------------------------
(* The product catalog and its price history: alice on one connection and
   admin on the other, two requests at a time, with store calls that fail *)

\* a user the admin created in an earlier run
Alice == StoredUser("alice", "alice@example.com", TRUE, BusinessProfile)
AliceBearer == Bearer([key |-> SECRET_KEY, payload |-> [sub |-> "alice", role |-> USER]])

ProductOps == {"create_product", "update_product"}

NextProducts ==
    \/ \E op \in ProductOps : Authenticate(1, op, AliceBearer)
    \/ \E op \in ProductOps : Authenticate(2, op, AdminBearer)
    \/ \E p \in Procs, d \in ProductCreate : create_product(p, d)
    \/ \E p \in Procs, id \in ProductIds, d \in ProductUpdate : update_product(p, id, d)
    \/ \E p \in Procs : update_product_history(p)
    \/ \E p \in Procs : update_product_write(p)
    \/ \E p \in Procs : update_product_reread(p)
    \/ \E p \in Procs : update_product_fails(p)

SpecProducts == InitWith({<<Alice>>}) /\ [][NextProducts]_vars

\* the same two connections with every store call succeeding: the runs are
\* the interleavings of the store calls of update calls and nothing else
NextInterleaved ==
    \/ \E op \in ProductOps : Authenticate(1, op, AliceBearer)
    \/ \E op \in ProductOps : Authenticate(2, op, AdminBearer)
    \/ \E p \in Procs, d \in ProductCreate : create_product(p, d)
    \/ \E p \in Procs, id \in ProductIds, d \in ProductUpdate : update_product(p, id, d)
    \/ \E p \in Procs : update_product_history(p)
    \/ \E p \in Procs : update_product_write(p)
    \/ \E p \in Procs : update_product_reread(p)

SpecInterleaved == InitWith({<<Alice>>}) /\ [][NextInterleaved]_vars


----------------------------------------------------------------------------
(* The status of stored invoices: every status on every invoice id, one
   request at a time, with the clock *)

NextStatus ==
    \/ \E op \in {"create_invoice", "update_invoice_status", "get_invoice"} :
           Authenticate(1, op, AdminBearer)
    \/ \E body \in InvoiceBodies({<<Widget>>}, {}) : create_invoice(1, body)
    \/ create_invoice_profile(1)
    \/ create_invoice_insert(1)
    \/ \E id \in InvoiceIds, s \in InvoiceStatus : update_invoice_status(1, id, s)
    \/ \E id \in InvoiceIds : get_invoice(1, id)
    \/ Tick

SpecStatus == InitWith({<<>>}) /\ [][NextStatus]_vars

----------------------------------------------------------------------------
(* The dashboard over stores of invoices made in earlier months and in this
   one, by create_invoice, with line items of up to six products *)

\* InvoiceItem values of further products; Clone is another product that
\* carries the name of Widget
Clone ==
    [product_id |-> "p3", product_name |-> "Widget", description |-> NoStr,
     quantity |-> 3, rate |-> 1000, amount |-> 3000]
Bolt ==
    [product_id |-> "p4", product_name |-> "Bolt", description |-> NoStr,
     quantity |-> 10, rate |-> 100, amount |-> 1000]
Nut ==
    [product_id |-> "p5", product_name |-> "Nut", description |-> NoStr,
     quantity |-> 10, rate |-> 50, amount |-> 500]
Washer ==
    [product_id |-> "p6", product_name |-> "Washer", description |-> NoStr,
     quantity |-> 4, rate |-> 50, amount |-> 200]
Spring ==
    [product_id |-> "p7", product_name |-> "Spring", description |-> NoStr,
     quantity |-> 1, rate |-> 20000, amount |-> 20000]

StatsItemLists ==
    { <<Widget>>, <<Gadget, Widget>>, <<Widget, Clone>>, <<Gadget, Spring>>,
      <<Bolt, Nut, Washer, Spring>>, <<Bolt, Nut, Washer, Gadget, Widget>> }

\* the document create_invoice stores for the n-th invoice, made by admin at
\* time t with the default tax rate
StoredInvoice(n, items, t) ==
    LET invoice_data == InvoiceCreate([customer |-> Carol, items |-> items])
    IN  prepare_for_mongo(
            InvoiceObj(<<"invoice", n>>, invoice_number_of(n - 1), invoice_data,
                       calculate_totals(items, invoice_data.tax_rate), "admin",
                       BusinessProfile, t))

StatsMaxTime == 3

\* the invoices collection as found: none, one or two invoices, in the order
\* of their creation
SeedInvoices ==
    {<<>>}
    \cup {<<StoredInvoice(1, a, t)>> : a \in StatsItemLists, t \in 0..StatsMaxTime}
    \cup {<<StoredInvoice(1, a, t), StoredInvoice(2, b, u)>> :
              a \in {<<Widget>>, <<Widget, Clone>>, <<Bolt, Nut, Washer, Spring>>},
              b \in {<<Gadget, Widget>>, <<Gadget, Spring>>}, t \in {0, 1, 2},
              u \in {2, 3}}

InitStats ==
    /\ users = create_admin_user(<<>>, 0, "s1")
    /\ products = <<>>
    /\ price_history = <<>>
    /\ invoices \in SeedInvoices
    /\ now \in 1..StatsMaxTime
    /\ \A i \in DOMAIN invoices : fromisoformat(invoices[i].created_at) <= now
    /\ pc = [p \in Procs |-> "idle"]
    /\ local = [p \in Procs |-> None]
    /\ resp = [n |-> 0, op |-> "startup", cred |-> NoCredentials, req |-> None,
               status |-> 0, detail |-> "", body |-> None]

NextStats ==
    \/ Authenticate(1, "get_dashboard_stats", AdminBearer)
    \/ get_dashboard_stats(1)
    \/ get_dashboard_stats_revenue(1)
    \/ get_dashboard_stats_monthly(1)
    \/ get_dashboard_stats_top(1)

SpecStats == InitStats /\ [][NextStats]_vars

----------------------------------------------------------------------------
(* Invoice numbering: invoices created one after the other by two users *)

NextNumbering ==
    \/ \E op \in {"create_invoice", "get_invoices", "update_invoice_status"},
          cred \in {AdminBearer, AliceBearer} : Authenticate(1, op, cred)
    \/ \E body \in InvoiceBodies({<<Widget>>}, {}) : create_invoice(1, body)
    \/ create_invoice_profile(1)
    \/ create_invoice_insert(1)
    \/ get_invoices(1)
    \/ \E id \in InvoiceIds : update_invoice_status(1, id, SENT)

SpecNumbering == InitWith({<<Alice>>}) /\ [][NextNumbering]_vars

----------------------------------------------------------------------------
(* Rendering: invoices whose tax is an even and an odd number of hundredths
   and one whose notes the layout cannot parse, downloaded as PDF *)

\* an item of 100.50, on which 18 % are 18.09
Trinket ==
    [product_id |-> "p8", product_name |-> "Trinket", description |-> NoStr,
     quantity |-> 1, rate |-> 10050, amount |-> 10050]

RenderBodies ==
    { [customer |-> Carol, items |-> <<Widget, Gadget>>],
      [customer |-> Carol, items |-> <<Trinket>>, tax_rate |-> 18, notes |-> "net 30"],
      [customer |-> Carol, items |-> <<Widget>>, tax_rate |-> 5, notes |-> "<b>net 30"] }

NextRender ==
    \/ \E op \in {"create_invoice", "download_invoice_pdf"} :
           Authenticate(1, op, AdminBearer)
    \/ \E body \in RenderBodies : create_invoice(1, body)
    \/ create_invoice_profile(1)
    \/ create_invoice_insert(1)
    \/ \E id \in InvoiceIds : download_invoice_pdf(1, id)

SpecRender == InitWith({<<>>}) /\ [][NextRender]_vars

----------------------------------------------------------------------------
(* Profile updates of one user, two requests at a time *)

NextProfile ==
    \/ \E p \in Procs, op \in {"update_business_profile", "get_business_profile"} :
           Authenticate(p, op, AdminBearer)
    \/ \E p \in Procs, d \in BusinessProfileUpdate : update_business_profile(p, d)
    \/ \E p \in Procs : update_business_profile_write(p)
    \/ \E p \in Procs : get_business_profile(p)

SpecProfile == InitWith({<<>>}) /\ [][NextProfile]_vars
----------------------------------------------------------------------------
(* Claims about the invoice assembler *)

\* C1: no two stored invoices share an invoice number, however the
\* create-invoice calls interleave (two concurrent calls on an empty
\* collection do not both get INV-0001).
C1_UniqueInvoiceNumbers ==
    \A i, j \in DOMAIN invoices :
        i # j => invoices[i].invoice_number # invoices[j].invoice_number

\* the totals of an invoice document follow from its items and tax rate
TotalsHold(d) ==
    /\ d.subtotal = SumAmounts(d.items)
    /\ d.tax_amount * 100 = d.subtotal * d.tax_rate
    /\ d.total_amount = d.subtotal + d.tax_amount

\* C2: the invoice that create-invoice returns and stores has subtotal = the
\* sum of the item amounts sent by the caller, tax_amount = subtotal *
\* tax_rate / 100 and total_amount = subtotal + tax_amount; amounts 100 and
\* 200 at rate 18 give 300, 54 and 354, no items give 0, 0 and 0.
C2_TotalsFromItemAmounts ==
    (resp.op = "create_invoice" /\ resp.status = 200) =>
        LET inv == resp.body
            stored == find_one(invoices, [id |-> inv.id])
        IN  /\ inv.items = resp.req.items
            /\ inv.tax_rate = resp.req.tax_rate
            /\ inv.subtotal = SumAmounts(resp.req.items)
            /\ inv.tax_amount * 100 = inv.subtotal * resp.req.tax_rate
            /\ inv.total_amount = inv.subtotal + inv.tax_amount
            /\ stored # None
            /\ stored.items = inv.items
            /\ <<stored.subtotal, stored.tax_rate, stored.tax_amount, stored.total_amount>>
                   = <<inv.subtotal, inv.tax_rate, inv.tax_amount, inv.total_amount>>
            /\ resp.req.items = <<>> =>
                   <<inv.subtotal, inv.tax_amount, inv.total_amount>> = <<0, 0, 0>>
            /\ (Len(resp.req.items) = 2 /\ resp.req.items[1].amount = 10000
                    /\ resp.req.items[2].amount = 20000 /\ resp.req.tax_rate = 18) =>
                   <<inv.subtotal, inv.tax_amount, inv.total_amount>> = <<30000, 5400, 35400>>

\* amounts 100 and 200, of which the second is not quantity * rate, at 18
C2_Witness ==
    /\ resp.op = "create_invoice"
    /\ resp.status = 200
    /\ resp.req.items = <<Widget, Gadget>>
    /\ resp.req.tax_rate = 18
    /\ resp.body.total_amount = 35400
    /\ Gadget.quantity * Gadget.rate # Gadget.amount

\* C3: a stored invoice stays stored, and no step changes any of its fields
\* but status and updated_at; so every stored invoice keeps the totals that
\* follow from its items and tax rate.
C3_InvoiceFrame ==
    [][/\ \A i \in DOMAIN invoices :
              /\ i \in DOMAIN invoices'
              /\ DOMAIN invoices'[i] = DOMAIN invoices[i]
              /\ \A f \in DOMAIN invoices[i] \ {"status", "updated_at"} :
                     invoices'[i][f] = invoices[i][f]
       /\ \A i \in DOMAIN invoices' : TotalsHold(invoices'[i])]_vars

\* two invoices, the first with its status set at a later time, after the
\* creator's profile and a product's price have changed
C3_Witness ==
    /\ Len(invoices) = 2
    /\ invoices[1].status # DRAFT
    /\ invoices[1].updated_at # invoices[1].created_at
    /\ invoices[1].subtotal = 30000
    /\ price_history # <<>>
    /\ \E i \in DOMAIN users : users[i].business_profile # BusinessProfile
    /\ resp.op \in {"download_invoice_pdf", "get_dashboard_stats"}

\* the profile a create-invoice call snapshots from the user it read
SnapshotOf(user) ==
    IF Get(user, "business_profile", None) = None THEN BusinessProfile
    ELSE user.business_profile

\* C4: the profile stored in an invoice is the profile of the acting user
\* as create-invoice read it (the defaults if the user has none), and no
\* later step, profile updates included, changes it.
C4_ProfileSnapshot ==
    [][/\ \A i \in DOMAIN invoices :
              /\ i \in DOMAIN invoices'
              /\ invoices'[i].business_profile = invoices[i].business_profile
       /\ \A p \in Procs :
              (pc[p] = "create_invoice_profile" /\ pc'[p] = "create_invoice_insert") =>
                  \E i \in DOMAIN users :
                      /\ users[i].username = local[p].current_user.username
                      /\ local'[p].user = users[i]
       /\ Len(invoices') > Len(invoices) =>
              \E p \in Procs :
                  /\ pc[p] = "create_invoice_insert"
                  /\ pc'[p] = "idle"
                  /\ invoices'[Len(invoices')].created_by = local[p].user.username
                  /\ invoices'[Len(invoices')].business_profile = SnapshotOf(local[p].user)]_vars

\* an invoice still shows the old company name after its creator's profile
\* was updated, next to one of a user without a profile that shows the
\* defaults
C4_Witness ==
    /\ \E i \in DOMAIN invoices, j \in DOMAIN users :
           /\ users[j].username = invoices[i].created_by
           /\ users[j].business_profile # None
           /\ users[j].business_profile.company_name = "Acme Ltd"
           /\ invoices[i].business_profile.company_name = "Your Company Name"
    /\ \E i \in DOMAIN invoices, j \in DOMAIN users :
           /\ users[j].username = invoices[i].created_by
           /\ users[j].business_profile = None
           /\ invoices[i].business_profile = BusinessProfile

----------------------------------------------------------------------------
(* Claims about the authentication gate *)

\* the subject a credential names, "" when it names none
SubjectOf(cred) ==
    IF cred.scheme = "Bearer" /\ "sub" \in DOMAIN cred.credentials.payload
    THEN cred.credentials.payload.sub ELSE ""

\* the credential is a bearer token signed with the key whose subject is a
\* stored user
ValidBearer(cred, us) ==
    /\ cred.scheme = "Bearer"
    /\ cred.credentials.key = SECRET_KEY
    /\ SubjectOf(cred) # ""
    /\ \E i \in DOMAIN us : us[i].username = SubjectOf(cred)

\* the first stored user of that name is active
ActiveUser(name, us) ==
    \E i \in DOMAIN us :
        /\ us[i].username = name
        /\ \A j \in 1..(i - 1) : us[j].username # name
        /\ us[i].is_active

\* C5: a token resolves to a user, and a protected handler is entered, only
\* if its signature verifies, it has a subject and the subject is a stored
\* user whose active flag is true.
C5_ResolvesOnlyActiveUser ==
    \A p \in Procs :
        pc[p] # "idle" =>
            /\ ValidBearer(local[p].cred, users)
            /\ ActiveUser(SubjectOf(local[p].cred), users)

\* C6: login answers with a token only when the username is stored, the
\* password matches the stored hash and the user is active.
C6_LoginTokenOnlyForActiveUser ==
    (resp.op = "login" /\ (resp.status = 200 \/ resp.body # None)) =>
        /\ resp.status = 200
        /\ resp.body.access_token.payload.sub = resp.req.username
        /\ \E i \in DOMAIN users :
               /\ users[i].username = resp.req.username
               /\ users[i].password.digest = <<users[i].password.salt, resp.req.password>>
               /\ users[i].is_active
        /\ ActiveUser(resp.req.username, users)

\* an inactive user gave the right password and was refused
C6_Witness ==
    /\ resp.op = "login"
    /\ resp.status = 401
    /\ resp.detail = "Account is inactive"
    /\ resp.body = None
    /\ \E i \in DOMAIN users :
           /\ users[i].username = resp.req.username
           /\ ~users[i].is_active
           /\ users[i].password.digest = <<users[i].password.salt, resp.req.password>>

\* the login request answered by this step fails on the username or on the
\* password
BadLogin(us, req) ==
    \/ \A i \in DOMAIN us : us[i].username # req.username
    \/ \E i \in DOMAIN us :
           /\ us[i].username = req.username
           /\ \A j \in 1..(i - 1) : us[j].username # req.username
           /\ us[i].password.digest # <<us[i].password.salt, req.password>>

\* C7: a login with an unknown username and a login with a wrong password
\* get the same answer, 401 "Invalid credentials", without a token, and
\* leave the store as it was.
C7_BadLoginIndistinguishable ==
    [][(resp'.n # resp.n /\ resp'.op = "login" /\ BadLogin(users, resp'.req)) =>
          /\ resp'.status = 401
          /\ resp'.detail = "Invalid credentials"
          /\ resp'.body = None
          /\ store' = store]_vars

\* a stored username with a wrong password was answered
C7_Witness ==
    /\ resp.op = "login"
    /\ resp.status = 401
    /\ resp.detail = "Invalid credentials"
    /\ \E i \in DOMAIN users : users[i].username = resp.req.username
    /\ BadLogin(users, resp.req)

\* C8: a request for any handler but login that carries no valid bearer
\* token never enters the handler: it is answered 401 or 403 with no data
\* and the store is unchanged.
C8_UnauthenticatedRejected ==
    [][/\ \A p \in Procs :
              pc'[p] # "idle" => ValidBearer(local'[p].cred, users')
       /\ (resp'.n # resp.n /\ resp'.op \in ProtectedOps
              /\ ~ValidBearer(resp'.cred, users)) =>
              /\ resp'.status \in {401, 403}
              /\ resp'.body = None
              /\ store' = store
              /\ \A p \in Procs : pc[p] = "idle" => pc'[p] = "idle"]_vars

\* a request without credentials and one with a forged token were refused
C8_Witness ==
    /\ resp.op \in ProtectedOps
    /\ resp.cred.scheme = "Bearer"
    /\ resp.cred.credentials.key # SECRET_KEY
    /\ resp.status = 401
    /\ resp.body = None

\* the stored role of the user a credential names
StoredRole(cred, us) ==
    LET u == find_one(us, [username |-> SubjectOf(cred)])
    IN  IF u = None THEN "" ELSE u.role

\* C9: create-user called by a resolved user whose role is not admin is
\* answered 403 and stores nothing; a user document is only ever added by a
\* create-user call of a caller whose stored role is admin.
C9_CreateUserAdminOnly ==
    [][/\ (resp'.n # resp.n /\ resp'.op = "create_user"
              /\ ValidBearer(resp'.cred, users)
              /\ StoredRole(resp'.cred, users) # ADMIN) =>
              /\ resp'.status = 403
              /\ resp'.detail = "Admin access required"
              /\ users' = users
       /\ users' # users =>
              /\ resp'.n # resp.n
              /\ resp'.op = "create_user"
              /\ ValidBearer(resp'.cred, users)
              /\ StoredRole(resp'.cred, users) = ADMIN]_vars

\* a stored non-admin called create-user and was refused
C9_Witness ==
    /\ resp.op = "create_user"
    /\ resp.status = 403
    /\ resp.detail = "Admin access required"
    /\ ValidBearer(resp.cred, users)
    /\ StoredRole(resp.cred, users) = USER

\* C10: no two stored users share a username or an email (create-user
\* refuses a username or email that is already stored).
C10_UniqueUsernameAndEmail ==
    \A i, j \in DOMAIN users :
        i # j => /\ users[i].username # users[j].username
                 /\ users[i].email # users[j].email

----------------------------------------------------------------------------
(* Claims about the product catalog *)

\* the stored product a running update with locals loc names
StoredProduct(loc) == find_one(products, [id |-> loc.product_id])

\* the partial of a running update has a price other than the stored one
PriceChanges(loc) ==
    /\ "current_price" \in DOMAIN loc.update_data
    /\ loc.update_data.current_price # StoredProduct(loc).current_price

\* the history is `before` and the record the update with locals loc owes
AppendedFor(loc, history, before) ==
    /\ Len(history) = Len(before) + 1
    /\ SubSeq(history, 1, Len(before)) = before
    /\ history[Len(history)].product_id = loc.product_id
    /\ history[Len(history)].old_price = loc.existing_product.current_price
    /\ history[Len(history)].new_price = loc.update_data.current_price
    /\ history[Len(history)].changed_by = loc.cred.credentials.payload.sub

\* C11: a product update appends one PriceHistory record exactly when its
\* partial has a price other than the price stored when the update reads the
\* product, with old_price that stored price, new_price the requested price
\* and changed_by the acting user; an update without a price, or with the
\* stored price, appends none, and an update answers 200 only after that.
C11_PriceHistoryIffPriceChanges ==
    [][/\ \A p \in Procs :
              /\ (pc[p] = "update_product" /\ pc'[p] \notin {"idle", "update_product"}) =>
                     /\ (pc'[p] = "update_product_history") <=> PriceChanges(local'[p])
                     /\ (pc'[p] = "update_product_write") <=> ~PriceChanges(local'[p])
              /\ (pc[p] = "update_product_history"
                     /\ pc'[p] \notin {"idle", "update_product_history"}) =>
                     /\ pc'[p] = "update_product_write"
                     /\ AppendedFor(local[p], price_history', price_history)
       /\ (\A p \in Procs : pc[p] # "update_product_history"
                                 \/ pc'[p] # "update_product_write") =>
              price_history' = price_history
       /\ (resp'.n # resp.n /\ resp'.op = "update_product" /\ resp'.status = 200) =>
              \E p \in Procs : pc[p] = "update_product_reread" /\ pc'[p] = "idle"]_vars

\* Widget 100 -> 150 by alice has given {100, 150, alice}; the update of the
\* description alone has given no record
C11_Witness ==
    /\ Len(price_history) = 1
    /\ price_history[1].old_price = 10000
    /\ price_history[1].new_price = 15000
    /\ price_history[1].changed_by = "alice"
    /\ products[1].current_price = 15000
    /\ products[1].description = "blue"
    /\ resp.op = "update_product"
    /\ resp.status = 200
    /\ resp.req.product_data = [current_price |-> 15000]

\* C13: a product update whose id matches no stored product is answered 404
\* "Product not found" and changes nothing in the store, whatever its partial.
C13_UpdateUnknownProduct ==
    [][(/\ resp'.n # resp.n
        /\ resp'.op = "update_product"
        /\ resp'.req # None
        /\ find_one(products, [id |-> resp'.req.product_id]) = None) =>
           /\ resp'.status = 404
           /\ resp'.detail = "Product not found"
           /\ resp'.body = None
           /\ store' = store]_vars

\* an update with a price for an id next to a stored product was refused
C13_Witness ==
    /\ resp.op = "update_product"
    /\ resp.status = 404
    /\ resp.req.product_id = <<"product", 2>>
    /\ "current_price" \in DOMAIN resp.req.product_data
    /\ Len(products) = 1
    /\ resp.req.product_data.current_price # products[1].current_price
    /\ price_history = <<>>

\* C17: no step changes the stored price of a product unless the history
\* already holds the record of that change (the append comes before the
\* product write; a failure between the two leaves the record without the
\* change, never the change without the record).
C17_HistoryBeforeProductWrite ==
    [][\A i \in DOMAIN products :
          (i \in DOMAIN products'
              /\ products'[i].current_price # products[i].current_price) =>
              \E k \in DOMAIN price_history :
                  /\ price_history[k].product_id = products[i].id
                  /\ price_history[k].old_price = products[i].current_price
                  /\ price_history[k].new_price = products'[i].current_price]_vars
----------------------------------------------------------------------------
(* Claims about the status of invoices *)

\* C12: a status update is answered "Invoice not found" exactly when no
\* invoice of that id is stored; on a stored invoice every new status, the
\* current one included, is accepted and is the invoice's status afterwards.
C12_SetStatusNotFoundIffAbsent ==
    [][(resp'.n # resp.n /\ resp'.op = "update_invoice_status" /\ resp'.req # None) =>
           LET stored == find_one(invoices, [id |-> resp'.req.invoice_id])
           IN  /\ (resp'.status = 404) <=> (stored = None)
               /\ stored # None =>
                      /\ resp'.status = 200
                      /\ find_one(invoices', [id |-> resp'.req.invoice_id]).status
                             = resp'.req.status]_vars
----------------------------------------------------------------------------
(* Claims about the dashboard *)

\* the line items of all stored invoices that refer to product pid
ItemsOfProduct(pid) == SelectSeq(Unwind(invoices), LAMBDA it : it.product_id = pid)

\* the products the line items of the stored invoices refer to
ReferencedProducts == {it.product_id : it \in Range(Unwind(invoices))}

\* C14: the top products of the dashboard are the sums of quantity and
\* amount per product over all line items of the stored invoices, one entry
\* for each distinct product the items refer to, by falling amount, at most
\* 5 of them, and no product left out has a larger sum than one listed.
C14_TopProductsPerProduct ==
    (resp.op = "get_dashboard_stats" /\ resp.status = 200) =>
        LET top == resp.body.top_products
        IN  /\ Len(top) = IF Cardinality(ReferencedProducts) < 5
                          THEN Cardinality(ReferencedProducts) ELSE 5
            /\ \A i, j \in DOMAIN top : i < j => top[i].amount >= top[j].amount
            /\ \E f \in [DOMAIN top -> ReferencedProducts] :
                   /\ \A i, j \in DOMAIN top : i # j => f[i] # f[j]
                   /\ \A i \in DOMAIN top :
                          /\ top[i].quantity = SumQuantity(ItemsOfProduct(f[i]))
                          /\ top[i].amount = SumAmounts(ItemsOfProduct(f[i]))
                   /\ \A pid \in ReferencedProducts \ {f[i] : i \in DOMAIN top} :
                          \A i \in DOMAIN top :
                              SumAmounts(ItemsOfProduct(pid)) <= top[i].amount

\* the stored invoices created at or after the first instant of the month
\* of time t
CreatedSince(t) ==
    SelectSeq(invoices,
              LAMBDA d : fromisoformat(d.created_at) >= (t \div MonthLen) * MonthLen)

\* C15: the monthly revenue of the dashboard is the sum of total_amount over
\* the stored invoices created at or after the first instant of the current
\* month and over no other; the total revenue is the sum over all of them.
C15_MonthlyRevenue ==
    (resp.op = "get_dashboard_stats" /\ resp.status = 200) =>
        /\ resp.body.monthly_revenue = SumTotalAmount(CreatedSince(now))
        /\ resp.body.total_revenue = SumTotalAmount(invoices)
        /\ resp.body.total_invoices = Len(invoices)

\* one invoice of an earlier month and one made at the first instant of
\* this month, later in which the dashboard was asked
C15_Witness ==
    /\ resp.op = "get_dashboard_stats"
    /\ resp.status = 200
    /\ Len(invoices) = 2
    /\ fromisoformat(invoices[1].created_at) < (now \div MonthLen) * MonthLen
    /\ fromisoformat(invoices[2].created_at) = (now \div MonthLen) * MonthLen
    /\ now > (now \div MonthLen) * MonthLen
    /\ resp.body.monthly_revenue = invoices[2].total_amount
    /\ resp.body.total_revenue = invoices[1].total_amount + invoices[2].total_amount
    /\ invoices[1].total_amount > 0
----------------------------------------------------------------------------
(* Claims about invoice numbering *)

\* the number of the k-th invoice
NumberText(k) ==
    CASE k = 1 -> "INV-0001" [] k = 2 -> "INV-0002" [] k = 3 -> "INV-0003"
      [] k = 4 -> "INV-0004"

\* C16: with create-invoice calls one after the other, a created invoice
\* gets "INV-" and the count of stored invoices + 1 padded to 4 digits, the
\* k-th invoice has number k, and every created invoice is stored as the
\* last one with status draft and created_by the acting user.
C16_SequentialNumbers ==
    [][/\ (resp'.n # resp.n /\ resp'.op = "create_invoice" /\ resp'.status = 200) =>
              /\ Len(invoices') = Len(invoices) + 1
              /\ SubSeq(invoices', 1, Len(invoices)) = invoices
              /\ invoices'[Len(invoices')].invoice_number = NumberText(Len(invoices) + 1)
              /\ invoices'[Len(invoices')].status = DRAFT
              /\ invoices'[Len(invoices')].created_by = resp'.cred.credentials.payload.sub
              /\ resp'.body.invoice_number = NumberText(Len(invoices) + 1)
       /\ \A k \in DOMAIN invoices' : invoices'[k].invoice_number = NumberText(k)
       /\ Len(invoices') >= Len(invoices)
       /\ <<invoice_number_of(8), invoice_number_of(9), invoice_number_of(99),
            invoice_number_of(9998), invoice_number_of(9999)>>
              = <<"INV-0009", "INV-0010", "INV-0100", "INV-9999", "INV-10000">>]_vars

\* alice's invoice is INV-0001, admin's, made after it, INV-0002
C16_Witness ==
    /\ Len(invoices) = 2
    /\ invoices[1].invoice_number = "INV-0001"
    /\ invoices[1].created_by = "alice"
    /\ invoices[2].invoice_number = "INV-0002"
    /\ invoices[2].created_by = "admin"
    /\ invoices[2].status = DRAFT
    /\ resp.op = "create_invoice"
    /\ resp.status = 200
    /\ resp.body.invoice_number = "INV-0002"
----------------------------------------------------------------------------
(* Claims about the rendered invoice *)

\* C18: in the totals block of a rendered invoice the two tax components
\* are equal, each is tax_amount / 2 and is labeled tax_rate / 2, so that
\* the two add up to the tax_amount and, with the subtotal, to the
\* total_amount of the invoice.
C18_TaxSplitInHalves ==
    (resp.op = "download_invoice_pdf" /\ resp.status = 200) =>
        LET invoice == find_one(invoices, [id |-> resp.req])
            totals == resp.body.totals_data
        IN  /\ totals.cgst = totals.sgst
            /\ totals.cgst_label = totals.sgst_label
            /\ \E r \in 0..(invoice.tax_rate * 10) :
                   2 * r = invoice.tax_rate * 10 /\ totals.cgst_label = Fixed1(r)
            /\ \E h \in (invoice.tax_amount \div 2 - 1)..(invoice.tax_amount \div 2 + 1) :
                   /\ totals.cgst = Fixed2(h)
                   /\ 2 * h = invoice.tax_amount
                   /\ invoice.subtotal + 2 * h = invoice.total_amount
            /\ totals.subtotal = Fixed2(invoice.subtotal)
            /\ totals.total_amount = Fixed2(invoice.total_amount)

\* C19: the PDF of an invoice id that matches no stored invoice is answered
\* 404 "Invoice not found"; 500 is the answer only when a stored invoice
\* fails in parsing or layout.
C19_PdfOfUnknownInvoice ==
    (resp.op = "download_invoice_pdf" /\ resp.req # None) =>
        /\ find_one(invoices, [id |-> resp.req]) = None =>
               (resp.status = 404 /\ resp.detail = "Invoice not found")
        /\ resp.status = 500 => find_one(invoices, [id |-> resp.req]) # None
----------------------------------------------------------------------------
(* Claims about the business profile *)

\* the stored business profile of the user a credential names
StoredProfile(us, cred) ==
    find_one(us, [username |-> cred.credentials.payload.sub]).business_profile

\* C20: a profile update that succeeds overwrites the fields its request
\* sets and leaves every other field of the stored profile as it is stored,
\* so that of two updates of one user on disjoint fields, however they
\* interleave, neither undoes the other.
C20_ProfileUpdateKeepsOtherFields ==
    [][(resp'.n # resp.n /\ resp'.op = "update_business_profile"
           /\ resp'.status = 200) =>
           \A f \in ProfileFields :
               StoredProfile(users', resp'.cred)[f] =
                   IF resp'.req[f] # NoStr THEN resp'.req[f]
                   ELSE StoredProfile(users, resp'.cred)[f]]_vars
----------------------------------------------------------------------------
(* Claims about the price history as a whole *)

\* no request is inside update_product, from its first store call to its answer
NoUpdateInProgress ==
    \A p \in Procs : pc[p] \notin {"update_product", "update_product_history",
                                   "update_product_write", "update_product_reread"}

\* the price history records of one product, in the order of their insertion
HistoryOf(product_id) ==
    SelectSeq(price_history, LAMBDA r : r.product_id = product_id)

\* C21: whenever no product update is in progress, the price history of each
\* product, in the order of its appends, is a chain: each record's old_price
\* is the new_price of the record before it, and the new_price of the last
\* record is the stored current price of the product - for every interleaving
\* of update calls on the same product.
C21_PriceHistoryChain ==
    NoUpdateInProgress =>
        \A i \in DOMAIN products :
            LET h == HistoryOf(products[i].id)
            IN  /\ \A k \in 2..Len(h) : h[k].old_price = h[k - 1].new_price
                /\ h # <<>> => h[Len(h)].new_price = products[i].current_price
====
